---- MODULE Spec2Model ----
(***************************************************************************)
(* Release store of the ManekiTerminal update server (update_server.py)    *)
(* and its offline integrity checker (check_release.py).                   *)
(*                                                                         *)
(* The state is the releases/ directory: one sub-directory per version     *)
(* holding ManekiTerminal.exe and version.json, the latest.json pointer    *)
(* manifest and the installer files.  The server only reads these files,   *)
(* the checker reads them and fix_version_json rewrites two of them.       *)
(***************************************************************************)
EXTENDS Integers, Sequences, FiniteSets, TLC

\* ------------------------------------------------------------------ bounds
\* Longest dotted version handled by the comparison specification.
MaxParts == 2
\* Largest numeric component of a version.
MaxComp == 1
\* Longest artifact, in bytes.
MaxBytes == 1

\* ---------------------------------------------------------------- versions
\* A version string is modelled by the sequence of its dot-separated tokens
\* (str.split('.')).  A token is a canonical decimal numeral, represented by
\* its value, or NaN: any text int() rejects with ValueError.
NaN == -1

RECURSIVE SeqsUpTo(_, _)
SeqsUpTo(S, n) ==
    IF n = 0 THEN {<<>>}
    ELSE LET shorter == SeqsUpTo(S, n - 1)
         IN  shorter \cup {Append(s, x) : s \in {t \in shorter : Len(t) = n - 1}, x \in S}

\* Well-formed versions: 1..MaxParts numeric components in 0..MaxComp.
Versions == SeqsUpTo(0..MaxComp, MaxParts) \ {<<>>}

\* [int(x) for x in v.split('.')] succeeds iff every token is a numeral.
Parses(v) == \A i \in 1..Len(v) : v[i] # NaN

Max(a, b) == IF a >= b THEN a ELSE b

\* One round of the loop of _compare_versions, from index i (1-based).
RECURSIVE CompareFrom(_, _, _)
CompareFrom(parts1, parts2, i) ==
    IF i > Max(Len(parts1), Len(parts2)) THEN 0
    ELSE LET p1 == IF i <= Len(parts1) THEN parts1[i] ELSE 0
             p2 == IF i <= Len(parts2) THEN parts2[i] ELSE 0
         IN  IF p1 > p2 THEN 1
             ELSE IF p1 < p2 THEN -1
             ELSE CompareFrom(parts1, parts2, i + 1)

\* A comparison that stops at the shorter version instead of zero padding.
CompareNoPadding(v1, v2) ==
    LET n == IF Len(v1) <= Len(v2) THEN Len(v1) ELSE Len(v2)
    IN  CompareFrom(SubSeq(v1, 1, n), SubSeq(v2, 1, n), 1)

\* _compare_versions(v1, v2) for versions that parse: 1, -1 or 0.
CompareVersions(v1, v2) ==
    CompareFrom(v1, v2, 1)

\* Python's order on lists of ints, the sort key of list_versions:
\* the first unequal element decides, a proper prefix is smaller.
RECURSIVE ListLessFrom(_, _, _)
ListLessFrom(k1, k2, i) ==
    IF i > Len(k1) THEN i <= Len(k2)
    ELSE IF i > Len(k2) THEN FALSE
    ELSE IF k1[i] # k2[i] THEN k1[i] < k2[i]
    ELSE ListLessFrom(k1, k2, i + 1)

ListLess(k1, k2) ==
    ListLessFrom(k1, k2, 1)

\* Python's list.sort(key=..., reverse=True) on a sequence of [key, val]
\* pairs: descending by key, items with equal keys keep their input order.
RECURSIVE InsertDesc(_, _)
InsertDesc(x, s) ==
    IF s = <<>> THEN <<x>>
    ELSE IF ListLess(Head(s).key, x.key) THEN <<x>> \o s
    ELSE <<Head(s)>> \o InsertDesc(x, Tail(s))

\* The manifests are returned in the order of the directory scan.
Unsorted(s) == s

RECURSIVE SortDesc(_)
SortDesc(s) ==
    IF s = <<>> THEN <<>>
    ELSE InsertDesc(s[Len(s)], SortDesc(SubSeq(s, 1, Len(s) - 1)))

\* ------------------------------------------------------------- file system
\* Artifact contents: byte strings of at most MaxBytes bytes.
Contents == SeqsUpTo({0, 1}, MaxBytes)

\* Path.stat().st_size
StatSize(bytes) == Len(bytes)

\* calculate_sha256: the digest of the whole byte stream, read in blocks.
\* SHA-256 is taken to be collision free, so the digest stands for the
\* bytes it was computed from.
CalculateSha256(bytes) == bytes

\* The fields of a manifest other than version, size and sha256 (build,
\* release_date, download_url, changelog, required) travel together.
Metas == {"build-a", "build-b"}

\* A JSON file is absent, unparsable (json.load raises), empty because a
\* writer has opened it with mode 'w' and not yet written, or an object.
FileRec(k, v, s, h, m) ==
    [kind |-> k, version |-> v, size |-> s, sha256 |-> h, meta |-> m]

AbsentFile == FileRec("absent", <<>>, 0, <<>>, "")
MalformedFile == FileRec("malformed", <<>>, 0, <<>>, "")
TruncatedFile == FileRec("truncated", <<>>, 0, <<>>, "")
JsonFile(v, s, h, m) == FileRec("json", v, s, h, m)

IsJson(f) == f.kind = "json"
Exists(f) == f.kind # "absent"

NoExe == [present |-> FALSE, bytes |-> <<>>]
Exe(bytes) == [present |-> TRUE, bytes |-> bytes]

NoDir == [exists |-> FALSE, exe |-> NoExe, manifest |-> AbsentFile]
Dir(exe, manifest) == [exists |-> TRUE, exe |-> exe, manifest |-> manifest]

\* Names of the release directories the model considers, a version that is
\* never published, and the fresh-install sentinel of check_updates.
D1 == <<0, 1>>
D2 == <<1, 0>>
DX == <<NaN>>
Unpublished == <<1, 1>>
Sentinel == <<0, 0, 0>>
DirNames == {D1, D2, DX}

VARIABLES
    dirs,      \* releases/<name>/ : ManekiTerminal.exe and version.json
    latest,    \* releases/latest.json
    setups,    \* versions embedded in releases/ManekiTerminal-Setup-*.exe
    fixpc,     \* position of the running fix_version_json, or "idle"
    fixVer,    \* its argument
    fixData,   \* its local variable data
    fixPre,    \* the manifests and artifacts as its last call found them
    ret,       \* the last operation to take a step and what it returned
    cmpIn      \* inputs of the comparison specification

vars == <<dirs, latest, setups, fixpc, fixVer, fixData, fixPre, ret, cmpIn>>
files == <<dirs, latest, setups>>

\* ------------------------------------------------------------ return values
Ret(op, arg, st) ==
    [op |-> op, arg |-> arg, st |-> st, data |-> AbsentFile,
     update_available |-> FALSE, payload |-> FALSE, versions |-> <<>>,
     cmp |-> [aa |-> 0, ab |-> 0, ba |-> 0, bc |-> 0, ac |-> 0]]

NoRet == Ret("none", <<>>, "")

\* ------------------------------------------------------------ ReleaseManager
\* Reading a JSON file: exists() then json.load().
LoadJson(f) ==
    IF ~Exists(f) THEN [st |-> "none", data |-> AbsentFile]
    ELSE IF ~IsJson(f) THEN [st |-> "raise", data |-> AbsentFile]
    ELSE [st |-> "ok", data |-> f]

GetLatestRelease == LoadJson(latest)

DirOf(name) == IF name \in DirNames THEN dirs[name] ELSE NoDir

GetRelease(version) == LoadJson(DirOf(version).manifest)

GetReleaseFile(version) == DirOf(version).exe

\* extract_version: the tuple of ints of the file name, (0, 0, 0) when it
\* does not parse.
ExtractVersion(name) == IF Parses(name) THEN name ELSE <<0, 0, 0>>

\* get_latest_setup for one order of the glob: the first after the sort.
GetLatestSetup(globOrder) ==
    SortDesc([i \in 1..Len(globOrder) |->
                 [key |-> ExtractVersion(globOrder[i]), val |-> globOrder[i]]])[1].val

\* The directories list_versions and check_releases pick up: is_dir() and
\* version.json exists.
ScanDirs == {d \in DirNames : dirs[d].exists /\ Exists(dirs[d].manifest)}

\* All orders in which iterdir()/glob() may yield a set of names.
Orders(S) ==
    {o \in [1..Cardinality(S) -> S] : \A i, j \in 1..Cardinality(S) : i # j => o[i] # o[j]}

\* list_versions for one scan order: "raise" when a manifest does not load
\* or a version does not parse, else the manifests sorted by version.
ListVersions(scanOrder) ==
    LET loaded == [i \in 1..Len(scanOrder) |-> dirs[scanOrder[i]].manifest]
    IN  IF \E i \in 1..Len(loaded) : ~IsJson(loaded[i])
        THEN [st |-> "raise", versions |-> <<>>]
        ELSE IF \E i \in 1..Len(loaded) : ~Parses(loaded[i].version)
        THEN [st |-> "raise", versions |-> <<>>]
        ELSE LET keyed == [i \in 1..Len(loaded) |->
                              [key |-> loaded[i].version, val |-> loaded[i]]]
                 sorted == SortDesc(keyed)
             IN  [st |-> "ok", versions |-> [i \in 1..Len(sorted) |-> sorted[i].val]]

\* ------------------------------------------------------- server endpoints
\* GET /api/updates/latest
GetLatestResult ==
    LET l == GetLatestRelease
    IN  IF l.st = "raise" THEN Ret("get_latest", <<>>, "500")
        ELSE IF l.st = "none" THEN Ret("get_latest", <<>>, "404")
        ELSE [Ret("get_latest", <<>>, "200") EXCEPT !.data = l.data]

GetLatest ==
    /\ ret' = GetLatestResult
    /\ UNCHANGED <<files, fixpc, fixVer, fixData, fixPre, cmpIn>>

\* An update is also offered to a client that already runs the latest version.
UpdateAvailableOrEqual(latest_version, current_version) ==
    CompareVersions(latest_version, current_version) >= 0

\* update_available = _compare_versions(latest_version, current_version) > 0
UpdateAvailable(latest_version, current_version) ==
    CompareVersions(latest_version, current_version) > 0

\* The payload is included only when an update is available.
IncludePayloadNoSentinel(update_available, current_version) ==
    update_available

\* if update_available or current_version == '0.0.0'
IncludePayload(update_available, current_version) ==
    update_available \/ current_version = Sentinel

\* GET /api/updates/check?current=...
CheckUpdatesResult(current_version) ==
    LET l == GetLatestRelease
    IN  IF l.st = "raise" THEN Ret("check_updates", current_version, "500")
        ELSE IF l.st = "none" THEN Ret("check_updates", current_version, "404")
        ELSE IF ~Parses(l.data.version) \/ ~Parses(current_version)
        THEN Ret("check_updates", current_version, "500")
        ELSE LET ua == UpdateAvailable(l.data.version, current_version)
                 full == IncludePayload(ua, current_version)
             IN  [Ret("check_updates", current_version, "200") EXCEPT
                     !.update_available = ua,
                     !.payload = full,
                     !.data = IF full THEN l.data
                              ELSE JsonFile(l.data.version, 0, <<>>, "")]

\* Versions a client may report: well-formed ones of every length, among
\* them the sentinel and versions equal to it after padding, and one that
\* does not parse.
CurrentVersions == {Sentinel, <<0>>, D1, D2, D1 \o <<0>>, DX}

CheckUpdates ==
    /\ \E current_version \in CurrentVersions :
           ret' = CheckUpdatesResult(current_version)
    /\ UNCHANGED <<files, fixpc, fixVer, fixData, fixPre, cmpIn>>

\* Versions named in a URL or on the command line.
QueryVersions == DirNames \cup {Unpublished}

\* GET /api/updates/download/<version>
DownloadUpdate ==
    /\ \E version \in QueryVersions :
           ret' = IF GetReleaseFile(version).present
                  THEN Ret("download_update", version, "200")
                  ELSE Ret("download_update", version, "404")
    /\ UNCHANGED <<files, fixpc, fixVer, fixData, fixPre, cmpIn>>

\* GET /api/updates/changelog/<version>
GetChangelogResult(version) ==
    LET r == GetRelease(version)
    IN  IF r.st = "raise" THEN Ret("get_changelog", version, "500")
        ELSE IF r.st = "none" THEN Ret("get_changelog", version, "404")
        ELSE [Ret("get_changelog", version, "200") EXCEPT
                 !.data = JsonFile(version, 0, <<>>, r.data.meta)]

GetChangelog ==
    /\ \E version \in QueryVersions : ret' = GetChangelogResult(version)
    /\ UNCHANGED <<files, fixpc, fixVer, fixData, fixPre, cmpIn>>

\* GET /api/updates/versions, for one order of the directory scan
GetVersionsResult(scanOrder) ==
    LET r == ListVersions(scanOrder)
    IN  IF r.st = "raise" THEN Ret("get_versions", <<>>, "500")
        ELSE [Ret("get_versions", <<>>, "200") EXCEPT !.versions = r.versions]

GetVersions ==
    /\ \E scanOrder \in Orders(ScanDirs) : ret' = GetVersionsResult(scanOrder)
    /\ UNCHANGED <<files, fixpc, fixVer, fixData, fixPre, cmpIn>>

\* GET /api/setup/latest and GET /api/setup/download/latest
SetupLatest ==
    /\ \E op \in {"get_latest_setup", "download_latest_setup"} :
           IF setups = {} THEN ret' = Ret(op, <<>>, "404")
           ELSE \E globOrder \in Orders(setups) :
                    ret' = Ret(op, GetLatestSetup(globOrder), "200")
    /\ UNCHANGED <<files, fixpc, fixVer, fixData, fixPre, cmpIn>>

\* GET /api/setup/download/<version>
DownloadSetupByVersion ==
    /\ \E version \in QueryVersions :
           ret' = IF version \in setups
                  THEN Ret("download_setup_by_version", version, "200")
                  ELSE Ret("download_setup_by_version", version, "404")
    /\ UNCHANGED <<files, fixpc, fixVer, fixData, fixPre, cmpIn>>

\* GET /health
HealthCheck ==
    /\ ret' = Ret("health_check", <<>>, "200")
    /\ UNCHANGED <<files, fixpc, fixVer, fixData, fixPre, cmpIn>>

\* ------------------------------------------------------- check_release.py
\* The loop body of check_releases for one version directory: FALSE when
\* all_ok is cleared (artifact absent, manifest unreadable, size or hash
\* mismatch).
SizeMatch(dir) == StatSize(dir.exe.bytes) = dir.manifest.size
HashMatch(dir) == CalculateSha256(dir.exe.bytes) = dir.manifest.sha256

VersionOk(dir) ==
    /\ dir.exe.present
    /\ IsJson(dir.manifest)
    /\ SizeMatch(dir)
    /\ HashMatch(dir)

\* The latest.json part of check_releases: the file loads and the
\* directory it names exists.
LatestOk ==
    /\ Exists(latest)
    /\ IsJson(latest)
    /\ DirOf(latest.version).exists

\* check_releases(): "true"/"false" as returned, "raise" when the sort of
\* the directory names fails on a name that is not a dotted number.
CheckReleasesResult ==
    IF ScanDirs = {} THEN "false"
    ELSE IF \E d \in ScanDirs : ~Parses(d) THEN "raise"
    ELSE IF (\A d \in ScanDirs : VersionOk(dirs[d])) /\ LatestOk THEN "true"
    ELSE "false"

\* A check that repairs the size it finds wrong.
CheckReleasesRepairing ==
    /\ ret' = Ret("check_releases", <<>>, CheckReleasesResult)
    /\ dirs' = [d \in DirNames |->
                   IF dirs[d].exe.present /\ IsJson(dirs[d].manifest)
                   THEN [dirs[d] EXCEPT !.manifest.size = StatSize(dirs[d].exe.bytes)]
                   ELSE dirs[d]]
    /\ UNCHANGED <<latest, setups, fixpc, fixVer, fixData, fixPre, cmpIn>>

CheckReleases ==
    /\ ret' = Ret("check_releases", <<>>, CheckReleasesResult)
    /\ UNCHANGED <<files, fixpc, fixVer, fixData, fixPre, cmpIn>>

\* fix_version_json: data after data['size'] = actual_size and
\* data['sha256'] = actual_hash.
FixedData(dir) ==
    [dir.manifest EXCEPT !.size = StatSize(dir.exe.bytes),
                         !.sha256 = CalculateSha256(dir.exe.bytes)]

\* fix_version_json(version) up to open(version_json, 'w'): the existence
\* checks, the read of version.json, the measurement of the artifact, then
\* the open that empties version.json.
FixOpenVersion ==
    /\ fixpc = "idle"
    /\ \E version \in QueryVersions :
           LET dir == DirOf(version)
           IN  IF ~dir.exe.present \/ ~Exists(dir.manifest)
               THEN /\ ret' = Ret("fix_version_json", version, "false")
                    /\ UNCHANGED <<files, fixpc, fixVer, fixData>>
               ELSE IF ~IsJson(dir.manifest)
               THEN /\ ret' = Ret("fix_version_json", version, "raise")
                    /\ UNCHANGED <<files, fixpc, fixVer, fixData>>
               ELSE /\ fixData' = FixedData(dir)
                    /\ fixVer' = version
                    /\ dirs' = [dirs EXCEPT ![version].manifest = TruncatedFile]
                    /\ fixpc' = "dump_version"
                    /\ ret' = Ret("fix_version_json", version, "running")
                    /\ UNCHANGED <<latest, setups>>
    /\ fixPre' = [dirs |-> dirs, latest |-> latest]
    /\ UNCHANGED cmpIn

\* json.dump(data, f) into version.json and the close of the file.
FixDumpVersion ==
    /\ fixpc = "dump_version"
    /\ dirs' = [dirs EXCEPT ![fixVer].manifest = fixData]
    /\ fixpc' = "open_latest"
    /\ ret' = Ret("fix_version_json", fixVer, "running")
    /\ UNCHANGED <<latest, setups, fixVer, fixData, fixPre, cmpIn>>

\* The repair never rewrites latest.json.
LatestNeverRefers(latest_data, version) == FALSE

\* if latest_data.get('version') == version
LatestRefersTo(latest_data, version) == latest_data.version = version

\* The latest.json part up to open(latest_json, 'w'): return True when
\* latest.json is absent or names another version, else empty the file.
FixOpenLatest ==
    /\ fixpc = "open_latest"
    /\ IF ~Exists(latest)
       THEN /\ ret' = Ret("fix_version_json", fixVer, "true")
            /\ fixpc' = "idle" /\ fixVer' = <<>> /\ fixData' = AbsentFile
            /\ UNCHANGED latest
       ELSE IF ~IsJson(latest)
       THEN /\ ret' = Ret("fix_version_json", fixVer, "raise")
            /\ fixpc' = "idle" /\ fixVer' = <<>> /\ fixData' = AbsentFile
            /\ UNCHANGED latest
       ELSE IF LatestRefersTo(latest, fixVer)
       THEN /\ latest' = TruncatedFile
            /\ fixpc' = "dump_latest"
            /\ ret' = Ret("fix_version_json", fixVer, "running")
            /\ UNCHANGED <<fixVer, fixData>>
       ELSE /\ ret' = Ret("fix_version_json", fixVer, "true")
            /\ fixpc' = "idle" /\ fixVer' = <<>> /\ fixData' = AbsentFile
            /\ UNCHANGED latest
    /\ UNCHANGED <<dirs, setups, fixPre, cmpIn>>

\* json.dump(data, f) into latest.json, the close, and return True.
FixDumpLatest ==
    /\ fixpc = "dump_latest"
    /\ latest' = fixData
    /\ ret' = Ret("fix_version_json", fixVer, "true")
    /\ fixpc' = "idle" /\ fixVer' = <<>> /\ fixData' = AbsentFile
    /\ UNCHANGED <<dirs, setups, fixPre, cmpIn>>

\* ----------------------------------------------------------- initial states
\* What the offline publisher writes for a release: the artifact and a
\* manifest that names the directory and measures the artifact.
Published(version, bytes, meta) ==
    Dir(Exe(bytes),
        JsonFile(version, StatSize(bytes), CalculateSha256(bytes), meta))

\* Stores whose manifests measure their artifacts; the versions the
\* manifests carry and the manifests that do not load vary.
ManifestVersions == {D1, D2, D1 \o <<0>>, DX}
LatestVersions == ManifestVersions \cup {Sentinel, <<0>>}

VersionDirStates ==
    {NoDir, Dir(Exe(<<>>), AbsentFile), Dir(Exe(<<>>), MalformedFile)}
        \cup {Published(v, <<>>, "build-a") : v \in ManifestVersions}

InitVersions ==
    /\ dirs \in {f \in [DirNames -> VersionDirStates] :
                    f[DX] \in {NoDir, Published(D2, <<>>, "build-a")}}
    /\ latest \in {AbsentFile}
                    \cup {JsonFile(v, 0, <<>>, "build-a") : v \in LatestVersions}
    /\ setups = {}

\* Stores that differ in their installer files.
SetupNames == {D1, D2, DX}

InitSetups ==
    /\ dirs = [d \in DirNames |->
                  IF d = D1 THEN Published(D1, <<>>, "build-a") ELSE NoDir]
    /\ latest = JsonFile(D1, 0, <<>>, "build-a")
    /\ setups \in SUBSET SetupNames

\* Stores whose manifests name their directories; beside one release as
\* published, the artifact and the size and sha256 fields of one
\* version.json vary.
Digests == {CalculateSha256(b) : b \in Contents}

FocusDirStates ==
    {NoDir}
        \cup {Dir(e, m) :
                e \in {NoExe} \cup {Exe(b) : b \in Contents},
                m \in {AbsentFile, MalformedFile}
                        \cup {JsonFile(D2, s, h, "build-a") :
                                s \in 0..MaxBytes, h \in Digests}}

OtherDirStates == {NoDir, Published(D1, <<>>, "build-a")}

InitStaleVersion ==
    /\ dirs \in {f \in [DirNames -> FocusDirStates \cup OtherDirStates] :
                    /\ f[DX] = NoDir
                    /\ f[D1] = Published(D1, <<>>, "build-a")
                    /\ f[D2] \in FocusDirStates}
    /\ latest \in {AbsentFile, MalformedFile}
                    \cup {JsonFile(v, 0, <<>>, m) : v \in {D1, D2}, m \in Metas}
    /\ setups = {}

\* Stores whose per-version manifests are as published; the size, sha256
\* and other fields of latest.json vary.
InitStaleLatest ==
    /\ dirs \in {f \in [DirNames -> {Published(D2, b, "build-a") : b \in Contents}
                                        \cup OtherDirStates] :
                    /\ f[DX] = NoDir
                    /\ f[D1] \in OtherDirStates
                    /\ f[D2] \notin OtherDirStates}
    /\ latest \in {JsonFile(v, s, h, m) :
                      v \in {D1, D2}, s \in 0..MaxBytes, h \in Digests, m \in Metas}
    /\ setups = {}

Idle ==
    /\ fixpc = "idle"
    /\ fixVer = <<>>
    /\ fixData = AbsentFile
    /\ fixPre = [dirs |-> dirs, latest |-> latest]
    /\ ret = NoRet

Init ==
    /\ InitVersions \/ InitSetups \/ InitStaleVersion \/ InitStaleLatest
    /\ Idle
    /\ cmpIn = <<>>

Next ==
    \/ GetLatest
    \/ CheckUpdates
    \/ DownloadUpdate
    \/ GetChangelog
    \/ GetVersions
    \/ SetupLatest
    \/ DownloadSetupByVersion
    \/ HealthCheck
    \/ CheckReleases
    \/ FixOpenVersion
    \/ FixDumpVersion
    \/ FixOpenLatest
    \/ FixDumpLatest

Spec == Init /\ [][Next]_vars

\* ------------------------------------------- comparison specification
\* _compare_versions applied to every triple of well-formed versions.
InitCompare ==
    /\ cmpIn \in Versions \X Versions \X Versions
    /\ dirs = [d \in DirNames |-> NoDir]
    /\ latest = AbsentFile
    /\ setups = {}
    /\ Idle

Compare ==
    /\ ret.op = "none"
    /\ LET a == cmpIn[1]
           b == cmpIn[2]
           c == cmpIn[3]
       IN  ret' = [Ret("compare_versions", <<>>, "ok") EXCEPT
                      !.cmp = [aa |-> CompareVersions(a, a),
                               ab |-> CompareVersions(a, b),
                               ba |-> CompareVersions(b, a),
                               bc |-> CompareVersions(b, c),
                               ac |-> CompareVersions(a, c)]]
    /\ UNCHANGED <<files, fixpc, fixVer, fixData, fixPre, cmpIn>>

NextCompare == Compare

SpecCompare == InitCompare /\ [][NextCompare]_vars

\* ------------------------------------------------------------------ claims
\* VersionOrdering as the specification states it: both versions padded
\* with zeros to the same length, the first unequal component decides.
Pad(v, n) == [i \in 1..n |-> IF i <= Len(v) THEN v[i] ELSE 0]

Greater(a, b) ==
    LET n == Max(Len(a), Len(b))
    IN  \E i \in 1..n :
            /\ Pad(a, n)[i] > Pad(b, n)[i]
            /\ \A j \in 1..(i - 1) : Pad(a, n)[j] = Pad(b, n)[j]

EqualPadded(a, b) ==
    LET n == Max(Len(a), Len(b)) IN Pad(a, n) = Pad(b, n)

Ordering(a, b) == IF Greater(a, b) THEN 1 ELSE IF Greater(b, a) THEN -1 ELSE 0

\* A manifest is stale when its size or sha256 differs from the artifact.
Stale(manifest, exe) ==
    /\ IsJson(manifest)
    /\ exe.present
    /\ \/ manifest.size # Len(exe.bytes)
       \/ manifest.sha256 # exe.bytes

\* C1: with a latest-pointer manifest of a well-formed version and a
\* well-formed currentVersion, check_updates answers 200 with
\* update_available true exactly when latest.version is greater than
\* currentVersion, and with the download metadata of the latest release
\* exactly when update_available holds or currentVersion is '0.0.0';
\* otherwise only the flag and the two versions.
C1_CheckUpdateDecision ==
    (/\ ret.op = "check_updates"
     /\ IsJson(latest) /\ Parses(latest.version) /\ Parses(ret.arg))
    => /\ ret.st = "200"
       /\ ret.update_available = Greater(latest.version, ret.arg)
       /\ ret.payload = (ret.update_available \/ ret.arg = <<0, 0, 0>>)
       /\ ret.data = IF ret.payload THEN latest
                     ELSE JsonFile(latest.version, 0, <<>>, "")

\* A client on the latest version is told so and gets no metadata.
C1_Witness ==
    /\ ret.op = "check_updates"
    /\ ret.st = "200"
    /\ ret.arg = latest.version
    /\ ~ret.update_available
    /\ ~ret.payload

\* C2: _compare_versions is reflexive, antisymmetric and transitive on
\* well-formed versions, the first unequal component after zero padding
\* decides, and versions that differ only by trailing zeros are equal.
C2_TotalOrder ==
    ret.op = "compare_versions"
    => LET a == cmpIn[1]
           b == cmpIn[2]
           r == ret.cmp
       IN  /\ r.aa = 0
           /\ r.ab = -r.ba
           /\ (r.ab >= 0 /\ r.bc >= 0) => r.ac >= 0
           /\ r.ab = Ordering(a, b)
           /\ EqualPadded(a, b) => r.ab = 0

\* 1 against 1.0, and 1.0 against 0.1, have been compared.
C2_Witness ==
    /\ ret.op = "compare_versions"
    /\ cmpIn = <<(<<1>>), <<1, 0>>, <<0, 1>>>>
    /\ ret.cmp.ab = 0
    /\ ret.cmp.bc = 1

C4_StaleAlwaysFlagged ==
    (ret.op = "check_releases" /\ ret.st = "true")
    => /\ \A d \in DirNames : ~Stale(dirs[d].manifest, dirs[d].exe)
       /\ ~Stale(latest, DirOf(latest.version).exe)

\* C5: after fix_version_json(version) has returned True, version.json
\* carries the byte length and digest of the artifact, latest.json carries
\* them too when it names that version, and the check of that version
\* finds neither a size nor a hash mismatch.
C5_FixMakesManifestsTrue ==
    (ret.op = "fix_version_json" /\ ret.st = "true")
    => LET dir == DirOf(ret.arg)
       IN  /\ dir.exe.present
           /\ IsJson(dir.manifest)
           /\ dir.manifest.size = Len(dir.exe.bytes)
           /\ dir.manifest.sha256 = dir.exe.bytes
           /\ (IsJson(latest) /\ latest.version = ret.arg)
                  => /\ latest.size = Len(dir.exe.bytes)
                     /\ latest.sha256 = dir.exe.bytes
           /\ VersionOk(dir)

\* A repair of a non-empty artifact has completed and latest.json names
\* the repaired version.
C5_Witness ==
    /\ ret.op = "fix_version_json"
    /\ ret.st = "true"
    /\ IsJson(latest)
    /\ latest.version = ret.arg
    /\ DirOf(ret.arg).exe.bytes # <<>>

\* C6 as stated: get_latest and check_updates never answer from a latest
\* pointer whose release directory does not exist.
C6_NoDanglingLatestServed ==
    (ret.op \in {"get_latest", "check_updates"} /\ ret.st = "200")
    => DirOf(latest.version).exists

\* Releases whose manifest loads and carries a version that parses.
ValidReleases ==
    {d \in ScanDirs : IsJson(dirs[d].manifest) /\ Parses(dirs[d].manifest.version)}

\* C7 as stated: a release whose manifest does not load, or whose version
\* does not parse, is skipped: list_versions returns the manifests of all
\* the other releases and check_releases goes on to verify them.
C7_BrokenReleaseSkipped ==
    ValidReleases # {}
    => /\ ret.op = "get_versions"
              => /\ ret.st = "200"
                 /\ {ret.versions[i] : i \in 1..Len(ret.versions)}
                        = {dirs[d].manifest : d \in ValidReleases}
       /\ ret.op = "check_releases" => ret.st # "raise"

\* C8: a step that changes a release directory, latest.json or an
\* installer is a step of fix_version_json; the server's operations and
\* check_releases leave every file as it is.
C8_OnlyFixWrites ==
    [][files' # files => ret'.op = "fix_version_json"]_vars

\* check_releases has reported a size mismatch that is still on disk.
C8_Witness ==
    /\ ret.op = "check_releases"
    /\ ret.st = "false"
    /\ \E d \in ScanDirs :
           /\ Stale(dirs[d].manifest, dirs[d].exe)
           /\ dirs[d].manifest.size # Len(dirs[d].exe.bytes)

\* C9 as stated: a query answered while fix_version_json runs never sees
\* a manifest the repair has emptied and not yet written, nor a latest.json
\* that names the repaired version with a size or sha256 other than those
\* of the version.json already rewritten.
C9_NoPartialView ==
    (fixpc # "idle" /\ ret.op \in {"get_latest", "check_updates",
                                   "get_changelog", "get_versions"})
    => /\ ret.op \in {"get_latest", "check_updates"} => latest # TruncatedFile
       /\ ret.op = "get_changelog" => DirOf(ret.arg).manifest # TruncatedFile
       /\ ret.op = "get_versions"
              => \A d \in ScanDirs : dirs[d].manifest # TruncatedFile
       /\ (/\ ret.op \in {"get_latest", "check_updates"}
           /\ fixpc = "open_latest"
           /\ IsJson(latest) /\ latest.version = fixVer)
              => /\ latest.size = dirs[fixVer].manifest.size
                 /\ latest.sha256 = dirs[fixVer].manifest.sha256

\* C10 as stated: with a latest-pointer manifest, check_updates for
\* currentVersion '0.0.0' answers update_available = true with the full
\* payload of the latest release.
C10_SentinelAlwaysUpdate ==
    (/\ ret.op = "check_updates" /\ ret.arg = <<0, 0, 0>>
     /\ IsJson(latest) /\ Parses(latest.version))
    => /\ ret.st = "200"
       /\ ret.update_available
       /\ ret.payload
       /\ ret.data = latest

\* C10 amended: for currentVersion '0.0.0' the answer carries the full
\* payload of the latest release whatever its version, and
\* update_available is true exactly when that version has a component
\* greater than zero.
C10_SentinelGetsPayload ==
    (/\ ret.op = "check_updates" /\ ret.arg = <<0, 0, 0>>
     /\ IsJson(latest) /\ Parses(latest.version))
    => /\ ret.st = "200"
       /\ ret.payload
       /\ ret.data = latest
       /\ ret.update_available
              = (\E i \in 1..Len(latest.version) : latest.version[i] > 0)

\* A fresh install has asked a store whose latest release is 0.0.0.
C10_Witness ==
    /\ ret.op = "check_updates"
    /\ ret.arg = <<0, 0, 0>>
    /\ ret.st = "200"
    /\ ret.payload
    /\ ~ret.update_available

\* C11 as stated: fix_version_json changes nothing but size and sha256.
\* After it has returned True, version.json and latest.json carry the
\* version and the other fields they carried when it was called, every
\* other directory and every artifact is as it was; after it has returned
\* False no file has changed.
C11_FixOnlySizeAndHash ==
    ret.op = "fix_version_json"
    => /\ ret.st = "true"
              => /\ \A d \in DirNames :
                        /\ dirs[d].exists = fixPre.dirs[d].exists
                        /\ dirs[d].exe = fixPre.dirs[d].exe
                        /\ d # ret.arg => dirs[d] = fixPre.dirs[d]
                 /\ LET now == DirOf(ret.arg).manifest
                        was == fixPre.dirs[ret.arg].manifest
                    IN  /\ now.kind = was.kind
                        /\ now.version = was.version
                        /\ now.meta = was.meta
                 /\ latest.kind = fixPre.latest.kind
                 /\ latest.version = fixPre.latest.version
                 /\ latest.meta = fixPre.latest.meta
       /\ ret.st = "false"
              => /\ dirs = fixPre.dirs
                 /\ latest = fixPre.latest

====
